---- MODULE Spec2Model ----
(***************************************************************************)
(* Model of clock.py: a digital clock whose glyphs are drawn as 6x4 grids  *)
(* of small analog clock faces on a Tk canvas, redrawn by a callback that  *)
(* reschedules itself, with a tray menu running on a second thread.        *)
(*                                                                         *)
(* Strings are sequences of one-character strings.  The four box-drawing   *)
(* characters of the source are written "BL" (U+2514, arms up and right),  *)
(* "TL" (U+250C, arms right and down), "TR" (U+2510, arms down and left)   *)
(* and "BR" (U+2518, arms left and up).  A ClockOrientation is written as  *)
(* its value, the angle in degrees.                                        *)
(***************************************************************************)
EXTENDS Integers, Sequences, FiniteSets, TLC

VARIABLES
    hours,               \* module global `hours`
    date,                \* module global `date`
    ClockDirectionMap,   \* the defaultdict: keys present and their pairs
    canvas,              \* the Tk canvas: width, bg, items
    winState,            \* root.state(): "withdrawn" or "normal"
    winThread,           \* thread that issued the last withdraw/deiconify
    after,               \* number of print_to_tk callbacks pending in root.after
    destroyed,           \* root.destroy() has run
    pc,                  \* position of the GUI thread inside print_to_tk
    tick,                \* locals of the running print_to_tk call
    ret                  \* result of the last direct call of a function

vars == <<hours, date, ClockDirectionMap, canvas, winState,
          winThread, after, destroyed, pc, tick, ret>>

----------------------------------------------------------------------------
(* Static tables *)

\* The default_factory of ClockDirectionMap.
DefaultOrientations == <<150, 150>>

ClockDirectionMapInitial ==
       "BL" :> <<0, 270>>
    @@ "TL" :> <<270, 180>>
    @@ "TR" :> <<180, 90>>
    @@ "BR" :> <<90, 0>>
    @@ "-"  :> <<90, 270>>
    @@ "|"  :> <<0, 180>>

DigitRepresentationSource ==
       "0" :> <<
           <<"TL", "-", "-", "TR">>,
           <<"|", "TL", "TR", "|">>,
           <<"|", "|", "|", "|">>,
           <<"|", "|", "|", "|">>,
           <<"|", "BL", "BR", "|">>,
           <<"BL", "-", "-", "BR">> >>
    @@ "1" :> <<
           <<"TL", "-", "TR", " ">>,
           <<"BL", "TR", "|", " ">>,
           <<" ", "|", "|", " ">>,
           <<" ", "|", "|", " ">>,
           <<"TL", "BR", "BL", "TR">>,
           <<"BL", "-", "-", "BR">> >>
    @@ "2" :> <<
           <<"TL", "-", "-", "TR">>,
           <<"BL", "-", "TR", "|">>,
           <<"TL", "-", "BR", "|">>,
           <<"|", "TL", "-", "BR">>,
           <<"|", "BL", "-", "TR">>,
           <<"BL", "-", "-", "BR">> >>
    @@ "3" :> <<
           <<"TL", "-", "-", "TR">>,
           <<"BL", "-", "TR", "|">>,
           <<" ", "TL", "BR", "|">>,
           <<" ", "BL", "TR", "|">>,
           <<"TL", "-", "BR", "|">>,
           <<"BL", "-", "-", "BR">> >>
    @@ "4" :> <<
           <<"TL", "TR", "TL", "TR">>,
           <<"|", "|", "|", "|">>,
           <<"|", "BL", "BR", "|">>,
           <<"BL", "-", "TR", "|">>,
           <<" ", " ", "|", "|">>,
           <<" ", " ", "BL", "BR">> >>
    @@ "5" :> <<
           <<"TL", "-", "-", "TR">>,
           <<"|", "TL", "-", "BR">>,
           <<"|", "BL", "-", "TR">>,
           <<"BL", "-", "TR", "|">>,
           <<"TL", "-", "BR", "|">>,
           <<"BL", "-", "-", "BR">> >>
    @@ "6" :> <<
           <<"TL", "-", "-", "TR">>,
           <<"|", "TL", "-", "BR">>,
           <<"|", "BL", "-", "TR">>,
           <<"|", "TL", "TR", "|">>,
           <<"|", "BL", "BR", "|">>,
           <<"BL", "-", "-", "BR">> >>
    @@ "7" :> <<
           <<"TL", "-", "-", "TR">>,
           <<"BL", "-", "TR", "|">>,
           <<" ", " ", "|", "|">>,
           <<" ", " ", "|", "|">>,
           <<" ", " ", "|", "|">>,
           <<" ", " ", "BL", "BR">> >>
    @@ "8" :> <<
           <<"TL", "-", "-", "TR">>,
           <<"|", "TL", "TR", "|">>,
           <<"|", "BL", "BR", "|">>,
           <<"|", "TL", "TR", "|">>,
           <<"|", "BL", "BR", "|">>,
           <<"BL", "-", "-", "BR">> >>
    @@ "9" :> <<
           <<"TL", "-", "-", "TR">>,
           <<"|", "TL", "TR", "|">>,
           <<"|", "BL", "BR", "|">>,
           <<"BL", "-", "TR", "|">>,
           <<"TL", "-", "BR", "|">>,
           <<"BL", "-", "-", "BR">> >>
    @@ " " :> <<
           <<" ", " ", " ", " ">>,
           <<" ", " ", " ", " ">>,
           <<" ", " ", " ", " ">>,
           <<" ", " ", " ", " ">>,
           <<" ", " ", " ", " ">>,
           <<" ", " ", " ", " ">> >>
    @@ ":" :> <<
           <<" ", " ", " ", " ">>,
           <<" ", "TL", "TR", " ">>,
           <<" ", "BL", "BR", " ">>,
           <<" ", "TL", "TR", " ">>,
           <<" ", "BL", "BR", " ">>,
           <<" ", " ", " ", " ">> >>
    @@ "/" :> <<
           <<" ", " ", "TL", "TR">>,
           <<" ", "TL", "BR", "|">>,
           <<" ", "|", "TL", "BR">>,
           <<"TL", "BR", "|", " ">>,
           <<"|", "TL", "BR", " ">>,
           <<"BL", "BR", " ", " ">> >>

\* A table with one row a character short.
DigitRepresentationShortRow ==
    [DigitRepresentationSource EXCEPT !["7"][3] = <<" ", " ", "|">>]

\* The digit-pattern dict.  No statement of the program assigns to it or to
\* one of its entries, so it is a constant of the model.
DigitRepresentation == DigitRepresentationSource

----------------------------------------------------------------------------
(* String helpers, as Python computes them *)

DigitChars == <<"0", "1", "2", "3", "4", "5", "6", "7", "8", "9">>

\* "%0<w>d" % n, for 0 <= n < 10^w
RECURSIVE ZeroPad(_, _)
ZeroPad(n, w) ==
    IF w = 0 THEN <<>>
    ELSE Append(ZeroPad(n \div 10, w - 1), DigitChars[(n % 10) + 1])

\* datetime.strftime("%Y %m %d %H %M %S") for a reading with a 4-digit year
Strftime(now) ==
    ZeroPad(now.Y, 4) \o <<" ">> \o ZeroPad(now.m, 2) \o <<" ">> \o
    ZeroPad(now.d, 2) \o <<" ">> \o ZeroPad(now.H, 2) \o <<" ">> \o
    ZeroPad(now.M, 2) \o <<" ">> \o ZeroPad(now.S, 2)

\* str.split(sep) for a one-character separator: the parts of s from
\* position i on, cur being the part read so far.
RECURSIVE SplitFrom(_, _, _, _)
SplitFrom(s, sep, i, cur) ==
    IF i > Len(s) THEN <<cur>>
    ELSE IF s[i] = sep THEN <<cur>> \o SplitFrom(s, sep, i + 1, <<>>)
    ELSE SplitFrom(s, sep, i + 1, Append(cur, s[i]))

Split(s, sep) == SplitFrom(s, sep, 1, <<>>)

\* sep.join(parts)
RECURSIVE JoinFrom(_, _, _)
JoinFrom(sep, parts, k) ==
    IF k > Len(parts) THEN <<>>
    ELSE IF k = Len(parts) THEN parts[k]
    ELSE parts[k] \o sep \o JoinFrom(sep, parts, k + 1)

Join(sep, parts) == JoinFrom(sep, parts, 1)

\* tuple(reversed(t))
RECURSIVE Reversed(_)
Reversed(t) == IF t = <<>> THEN <<>> ELSE Append(Reversed(Tail(t)), Head(t))

\* t[:n] and t[n:] for 0 <= n
Take(t, n) == SubSeq(t, 1, IF n < Len(t) THEN n ELSE Len(t))
Drop(t, n) == SubSeq(t, n + 1, Len(t))

\* Results of calls: a returned value or a raised exception.
Return(v)       == [exc |-> "None", msg |-> "", value |-> v]
Raise(type, m)  == [exc |-> type, msg |-> m, value |-> <<>>]

NeitherMessage == "At least one of 'date' or 'hours' must be True."

----------------------------------------------------------------------------
(* Pure functions *)

\* The date parts returned day first.
current_time_day_first(d, h, now) ==
    LET all_parts == Split(Strftime(now), " ") IN
    IF d /\ h THEN Return(all_parts)
    ELSE IF d THEN Return(Reversed(Take(all_parts, 3)))
    ELSE IF h THEN Return(Drop(all_parts, 3))
    ELSE Raise("ValueError", NeitherMessage)

current_time(d, h, now) ==
    LET all_parts == Split(Strftime(now), " ") IN
    IF d /\ h THEN Return(all_parts)
    ELSE IF d THEN Return(Take(all_parts, 3))
    ELSE IF h THEN Return(Drop(all_parts, 3))
    ELSE Raise("ValueError", NeitherMessage)

\* A defaultdict whose factory gives the pair (0, 0).
DefaultDictZeroItem(map, char) ==
    IF char \in DOMAIN map
    THEN [value |-> map[char], map |-> map]
    ELSE [value |-> <<0, 0>>, map |-> map @@ (char :> <<0, 0>>)]

\* A lookup that stores the default under the key even when it is present.
DefaultDictResetItem(map, char) ==
    [value |-> IF char \in DOMAIN map THEN map[char] ELSE DefaultOrientations,
     map |-> (char :> DefaultOrientations) @@ map]

\* ClockDirectionMap[char] on a defaultdict: a missing key is inserted with
\* the default before it is returned.
DefaultDictGetItem(map, char) ==
    IF char \in DOMAIN map
    THEN [value |-> map[char], map |-> map]
    ELSE [value |-> DefaultOrientations,
          map |-> map @@ (char :> DefaultOrientations)]

\* The dict after the characters of the set chars have each been looked up:
\* a lookup touches the entry of its own key only.
DefaultDictAfter(map, chars) ==
    [k \in (DOMAIN map) \cup chars |->
        IF k \in chars THEN DefaultDictGetItem(map, k).map[k] ELSE map[k]]

\* The characters clock_digit looks up for each digit: those of its pattern.
PatternChars ==
    [digit \in DOMAIN DigitRepresentation |->
        UNION { { DigitRepresentation[digit][i][j] :
                    j \in 1..Len(DigitRepresentation[digit][i]) } :
                i \in 1..Len(DigitRepresentation[digit]) }]

\* clock_digit: tuple(tuple(ClockDirectionMap[char] for char in line)
\*                    for line in DigitRepresentation[digit]).
\* A lookup that inserts a key stores the pair it returns, so every lookup
\* returns what a lookup on the dict before the call returns.
clock_digit(digit, map) ==
    LET string == DigitRepresentation[digit]
    IN [value |-> [i \in 1..Len(string) |->
                     [j \in 1..Len(string[i]) |->
                        DefaultDictGetItem(map, string[i][j]).value]],
        map |-> DefaultDictAfter(map, PatternChars[digit])]

\* full_clock_string: the assert, then one clock_digit per character.
full_clock_string(s, map) ==
    IF \E i \in 1..Len(s) : s[i] \notin DOMAIN DigitRepresentation
    THEN [res |-> Raise("AssertionError", "String contains invalid characters."),
          map |-> map, s |-> s]
    ELSE [res |-> Return([i \in 1..Len(s) |-> clock_digit(s[i], map).value]),
          map |-> DefaultDictAfter(map,
                     UNION { PatternChars[s[i]] : i \in 1..Len(s) }),
          s |-> s]

\* full_clock_time with the date parts left in the order current_time gives.
full_clock_time_unreversed(d, h, now, map) ==
    LET c0 == current_time(d, h, now) IN
    IF c0.exc # "None" THEN [res |-> c0, map |-> map, s |-> <<>>]
    ELSE
      LET current1 == IF d
                      THEN Drop(c0.value, 3) \o
                           << (IF h THEN <<" ">> ELSE <<>>),
                              Join(<<"/">>, Take(c0.value, 3)) >>
                      ELSE c0.value
          current2 == IF h
                      THEN <<Join(<<":">>, Take(current1, 3))>> \o Drop(current1, 3)
                      ELSE current1
      IN full_clock_string(Join(<<>>, current2), map)

\* full_clock_time: the parts of the reading rearranged and joined.
full_clock_time(d, h, now, map) ==
    LET c0 == current_time(d, h, now) IN
    IF c0.exc # "None" THEN [res |-> c0, map |-> map, s |-> <<>>]
    ELSE
      LET current1 == IF d
                      THEN Drop(c0.value, 3) \o
                           << (IF h THEN <<" ">> ELSE <<>>),
                              Join(<<"/">>, Reversed(Take(c0.value, 3))) >>
                      ELSE c0.value
          current2 == IF h
                      THEN <<Join(<<":">>, Take(current1, 3))>> \o Drop(current1, 3)
                      ELSE current1
      IN full_clock_string(Join(<<>>, current2), map)

----------------------------------------------------------------------------
(* Angle to pixel mapping.  Coordinates of hand tips are fixed-point, in    *)
(* units of 1/100000 pixel; math.sin and math.cos are tabulated for the 12  *)
(* orientations, scaled by 1000 (exact for the multiples of 90 degrees,     *)
(* where round(_, 10) removes the floating-point residue).                  *)

Fixed(px) == px * 100000

Sin1000(angle) ==
    CASE angle % 360 = 0   -> 0
      [] angle % 360 = 30  -> 500
      [] angle % 360 = 60  -> 866
      [] angle % 360 = 90  -> 1000
      [] angle % 360 = 120 -> 866
      [] angle % 360 = 150 -> 500
      [] angle % 360 = 180 -> 0
      [] angle % 360 = 210 -> -500
      [] angle % 360 = 240 -> -866
      [] angle % 360 = 270 -> -1000
      [] angle % 360 = 300 -> -866
      [] angle % 360 = 330 -> -500

Cos1000(angle) == Sin1000(angle + 90)

\* The projection with the sine taken clockwise.
unpositionned_angle_calculation_clockwise(angle, clock_size) ==
    << clock_size * 50000 + (clock_size * 5 - 30) * 8 * Sin1000(angle),
       clock_size * 50000 + (clock_size * 5 - 30) * 8 * (-1) * Cos1000(angle) >>

\* clock_size / 2 + (clock_size / 2 - 3) * 0.8 * -1 * sin(rad), and cos for y
unpositionned_angle_calculation(angle, clock_size) ==
    << clock_size * 50000 + (clock_size * 5 - 30) * 8 * (-1) * Sin1000(angle),
       clock_size * 50000 + (clock_size * 5 - 30) * 8 * (-1) * Cos1000(angle) >>

angle_calculation(angle, clock_size, x, y) ==
    LET e == unpositionned_angle_calculation(angle, clock_size)
    IN << Fixed(x) + e[1], Fixed(y) + e[2] >>

----------------------------------------------------------------------------
(* print_to_tk helpers *)

HexChars == <<"0", "1", "2", "3", "4", "5", "6", "7", "8", "9",
              "a", "b", "c", "d", "e", "f">>

\* "#%02x%02x%02x" % color_value
ColorString(c) ==
    <<"#", HexChars[(c[1] \div 16) + 1], HexChars[(c[1] % 16) + 1],
           HexChars[(c[2] \div 16) + 1], HexChars[(c[2] % 16) + 1],
           HexChars[(c[3] \div 16) + 1], HexChars[(c[3] % 16) + 1]>>

\* "#eeeeee" if sum(color_value) / 3 < 128 else "#111111"
BgColor(c) ==
    IF c[1] + c[2] + c[3] < 3 * 128
    THEN <<"#", "e", "e", "e", "e", "e", "e">>
    ELSE <<"#", "1", "1", "1", "1", "1", "1">>

\* str.replace(a, b) for single characters
Replace(s, a, b) == [i \in DOMAIN s |-> IF s[i] = a THEN b ELSE s[i]]

OutlineColor(bg) == Replace(Replace(bg, "e", "d"), "1", "2")

\* round(width / n / 4): Python rounds a half to the even neighbour
ClockSize(width, n) ==
    LET q == width \div (4 * n)
        r == width % (4 * n)
    IN IF 2 * r < 4 * n THEN q
       ELSE IF 2 * r > 4 * n THEN q + 1
       ELSE IF q % 2 = 0 THEN q ELSE q + 1

\* The faces and hands the three nested loops create, in creation order.
\* An oval is <<x, y, x + clock_size, y + clock_size>> in pixels; a hand is
\* <<x + clock_size/2, y + clock_size/2, x_end, y_end>> in fixed-point.
RECURSIVE DrawLine(_, _, _, _, _)
DrawLine(line, col_idx, idx, row_idx, clock_size) ==
    IF line = <<>> THEN [ovals |-> <<>>, hands |-> <<>>]
    ELSE LET x    == idx * (4 * clock_size) + col_idx * clock_size
             y    == row_idx * clock_size
             cx   == Fixed(x) + clock_size * 50000
             cy   == Fixed(y) + clock_size * 50000
             e1   == angle_calculation(Head(line)[1], clock_size, x, y)
             e2   == angle_calculation(Head(line)[2], clock_size, x, y)
             rest == DrawLine(Tail(line), col_idx + 1, idx, row_idx, clock_size)
         IN [ovals |-> << <<x, y, x + clock_size, y + clock_size>> >> \o rest.ovals,
             hands |-> << <<cx, cy, e1[1], e1[2]>>, <<cx, cy, e2[1], e2[2]>> >>
                       \o rest.hands]

RECURSIVE DrawSquare(_, _, _, _)
DrawSquare(square, row_idx, idx, clock_size) ==
    IF square = <<>> THEN [ovals |-> <<>>, hands |-> <<>>]
    ELSE LET l    == DrawLine(Head(square), 0, idx, row_idx, clock_size)
             rest == DrawSquare(Tail(square), row_idx + 1, idx, clock_size)
         IN [ovals |-> l.ovals \o rest.ovals, hands |-> l.hands \o rest.hands]

RECURSIVE DrawSquares(_, _, _)
DrawSquares(clock_squares, idx, clock_size) ==
    IF clock_squares = <<>> THEN [ovals |-> <<>>, hands |-> <<>>]
    ELSE LET s    == DrawSquare(Head(clock_squares), 0, idx, clock_size)
             rest == DrawSquares(Tail(clock_squares), idx + 1, clock_size)
         IN [ovals |-> s.ovals \o rest.ovals, hands |-> s.hands \o rest.hands]

----------------------------------------------------------------------------
(* Inputs *)

\* Clock readings datetime.now() is drawn from by direct calls.
Readings ==
    [Y : {1999, 2025}, m : {3, 12}, d : {9, 31},
     H : {0, 13, 23}, M : {5, 45}, S : {7, 59}]

\* Clock readings the redraw tick draws from: the first NumTickReadings of these.
TickReadingList ==
    << [Y |-> 2025, m |-> 3,  d |-> 9,  H |-> 13, M |-> 45, S |-> 7],
       [Y |-> 1999, m |-> 12, d |-> 31, H |-> 23, M |-> 59, S |-> 59],
       [Y |-> 2026, m |-> 11, d |-> 2,  H |-> 0,  M |-> 0,  S |-> 0] >>

NumTickReadings == 2

TickReadings ==
    { TickReadingList[i] : i \in 1..(IF NumTickReadings < Len(TickReadingList)
                                     THEN NumTickReadings
                                     ELSE Len(TickReadingList)) }

\* Values new_random_color() is drawn from: one dark, one light.
Colors == { <<18, 52, 86>>, <<200, 220, 240>> }

\* Characters looked up directly: the six known glyphs and three others.
Glyphs == {"BL", "TL", "TR", "BR", "-", "|", " ", "Z", "0"}

Angles == {0, 30, 60, 90, 120, 150, 180, 210, 240, 270, 300, 330}

\* Face sizes and face positions angle_calculation is called with directly.
Sizes == {20, 100}
Offsets == {0, 40}

----------------------------------------------------------------------------
(* State *)

\* A canvas holds its width, its background and its items.  The items are
\* recorded by what they were painted from: the glyph string s (empty: no
\* items), the face size, and the two colours; CanvasOvals and CanvasHands
\* give the items themselves.
NoItems(width, bg) ==
    [width |-> width, bg |-> bg, s |-> <<>>, clock_size |-> 0,
     outline |-> <<>>, fill |-> <<>>]

NoTick == [color |-> <<>>, bg |-> <<>>, width |-> 0, allOff |-> TRUE,
           argDate |-> FALSE, argHours |-> FALSE, outcome |-> "none",
           canvas0 |-> NoItems(0, <<>>)]

NoCall == [fn |-> "none", args |-> <<>>, res |-> Return(<<>>)]

\* The state when root.mainloop() starts: the flags from argv (hours is
\* true unless only --date is given), the canvas as constructed, the window
\* withdrawn by the main thread, one print_to_tk pending.
InitProgram ==
    /\ date \in BOOLEAN
    /\ hours \in BOOLEAN
    /\ hours \/ date
    /\ ClockDirectionMap = ClockDirectionMapInitial
    /\ canvas = NoItems(IF hours THEN 640 ELSE 0, <<>>)
    /\ winState = "withdrawn"
    /\ winThread = "main"
    /\ after = 1
    /\ destroyed = FALSE
    /\ pc = "idle"
    /\ tick = NoTick

Init == InitProgram /\ ret = NoCall

----------------------------------------------------------------------------
(* The redraw tick, print_to_tk, on the GUI thread.  Each action holds at   *)
(* most one access to the globals the tray thread writes.                   *)

\* The callback fires, and the first read of `hours` in line 343.  The
\* colour of lines 339-342 is drawn where it is first used, in Clear.
TickStart ==
    /\ ~destroyed /\ pc = "idle" /\ after > 0
    /\ tick' = [NoTick EXCEPT !.width = IF hours THEN 640 ELSE 0,
                              !.allOff = ~hours]
    /\ after' = after - 1
    /\ pc' = "width_date"
    /\ UNCHANGED <<hours, date, ClockDirectionMap, canvas,
                   winState, winThread, destroyed, ret>>

\* (800 if date else 0)
WidthDate ==
    /\ ~destroyed /\ pc = "width_date"
    /\ tick' = [tick EXCEPT !.width = @ + (IF date THEN 800 ELSE 0),
                            !.allOff = @ /\ ~date]
    /\ pc' = "width_and_hours"
    /\ UNCHANGED <<hours, date, ClockDirectionMap, canvas,
                   winState, winThread, after, destroyed, ret>>

\* (80 if hours and date else 0): `hours`, and `date` only if hours was true
WidthAndHours ==
    /\ ~destroyed /\ pc = "width_and_hours"
    /\ tick' = [tick EXCEPT !.allOff = @ /\ ~hours]
    /\ pc' = IF hours THEN "width_and_date" ELSE "clear"
    /\ UNCHANGED <<hours, date, ClockDirectionMap, canvas,
                   winState, winThread, after, destroyed, ret>>

WidthAndDate ==
    /\ ~destroyed /\ pc = "width_and_date"
    /\ tick' = [tick EXCEPT !.width = @ + (IF date THEN 80 ELSE 0),
                            !.allOff = @ /\ ~date]
    /\ pc' = "clear"
    /\ UNCHANGED <<hours, date, ClockDirectionMap, canvas,
                   winState, winThread, after, destroyed, ret>>

\* The canvas reconfigured with its items left on it.
ClearKeepingItems ==
    /\ ~destroyed /\ pc = "clear"
    /\ \E color_value \in Colors :
         /\ canvas' = [canvas EXCEPT !.width = tick.width,
                                     !.bg = BgColor(color_value)]
         /\ tick' = [tick EXCEPT !.color = ColorString(color_value),
                                 !.bg = BgColor(color_value),
                                 !.argDate = date,
                                 !.allOff = @ /\ ~date,
                                 !.canvas0 = IF tick.allOff /\ ~date THEN canvas
                                             ELSE NoItems(0, <<>>)]
    /\ pc' = "call"
    /\ UNCHANGED <<hours, date, ClockDirectionMap,
                   winState, winThread, after, destroyed, ret>>

\* new_random_color() and the colours derived from it, canvas.delete("all"),
\* canvas.config(width, bg), canvas.pack, and the read of `date` for the
\* call in line 347.  canvas0 keeps the canvas as the tick found it, for as
\* long as every read of the flags in the tick has returned false.
Clear ==
    /\ ~destroyed /\ pc = "clear"
    /\ \E color_value \in Colors :
         /\ canvas' = NoItems(tick.width, BgColor(color_value))
         /\ tick' = [tick EXCEPT !.color = ColorString(color_value),
                                 !.bg = BgColor(color_value),
                                 !.argDate = date,
                                 !.allOff = @ /\ ~date,
                                 !.canvas0 = IF tick.allOff /\ ~date THEN canvas
                                             ELSE NoItems(0, <<>>)]
    /\ pc' = "call"
    /\ UNCHANGED <<hours, date, ClockDirectionMap,
                   winState, winThread, after, destroyed, ret>>

\* The frame lines 348-369 paint from the result r of full_clock_time.
Paint(cv, t, r) ==
    [cv EXCEPT !.s = r.s,
               !.clock_size = ClockSize(t.width, Len(r.res.value)),
               !.outline = OutlineColor(t.bg),
               !.fill = t.color]

\* A try statement whose handler swallows nothing.
OutcomeNoHandler(res) == IF res.exc = "None" THEN "drawn" ELSE "raised"

\* What the try statement does with the result of full_clock_time: "drawn"
\* on a return, "skipped" on the ValueError it swallows, "raised" otherwise.
Outcome(res) ==
    IF res.exc = "None" THEN "drawn"
    ELSE IF res.exc = "ValueError" /\ res.msg = NeitherMessage THEN "skipped"
    ELSE "raised"

\* The read of `hours`, full_clock_time, and lines 348-372.
CallAndDraw ==
    /\ ~destroyed /\ pc = "call"
    /\ \E now \in TickReadings :
         LET r == full_clock_time(tick.argDate, hours, now,
                                  ClockDirectionMap)
             o == Outcome(r.res)
         IN /\ ClockDirectionMap' = r.map
            /\ tick' = [tick EXCEPT !.argHours = hours,
                                    !.allOff = @ /\ ~hours,
                                    !.outcome = o,
                                    !.canvas0 = IF tick.allOff /\ ~hours THEN @
                                                ELSE NoItems(0, <<>>)]
            /\ canvas' = IF o = "drawn" THEN Paint(canvas, tick, r) ELSE canvas
            /\ pc' = IF o = "raised" THEN "idle" ELSE "after"
    /\ UNCHANGED <<hours, date, winState, winThread, after, destroyed, ret>>

\* root.after(1000, print_to_tk, root, canvas), and the return.
Reschedule ==
    /\ ~destroyed /\ pc = "after"
    /\ after' = after + 1
    /\ pc' = "idle"
    /\ tick' = NoTick
    /\ UNCHANGED <<hours, date, ClockDirectionMap, canvas,
                   winState, winThread, destroyed, ret>>

Tick ==
    \/ TickStart
    \/ WidthDate
    \/ WidthAndHours
    \/ WidthAndDate
    \/ Clear
    \/ CallAndDraw
    \/ Reschedule

\* The ovals and the hands on a canvas, in creation order.
CanvasSquares(cv) ==
    full_clock_string(cv.s, ClockDirectionMap).res.value
CanvasOvals(cv) == DrawSquares(CanvasSquares(cv), 0, cv.clock_size).ovals
CanvasHands(cv) == DrawSquares(CanvasSquares(cv), 0, cv.clock_size).hands

----------------------------------------------------------------------------
(* The tray menu handlers, on the tray thread *)

\* root.state(), then root.deiconify() or root.withdraw(), called in the
\* handler itself.
toggle_window ==
    /\ ~destroyed
    /\ winState' = IF winState = "withdrawn" THEN "normal" ELSE "withdrawn"
    /\ winThread' = "tray"
    /\ UNCHANGED <<hours, date, ClockDirectionMap, canvas,
                   after, destroyed, pc, tick, ret>>

toggle_hours ==
    /\ ~destroyed
    /\ hours' = ~hours
    /\ UNCHANGED <<date, ClockDirectionMap, canvas, winState,
                   winThread, after, destroyed, pc, tick, ret>>

toggle_date ==
    /\ ~destroyed
    /\ date' = ~date
    /\ UNCHANGED <<hours, ClockDirectionMap, canvas, winState,
                   winThread, after, destroyed, pc, tick, ret>>

\* icon.stop(); root.destroy(): the canvas and the pending callbacks go with
\* the window, the main loop returns and the process ends.
on_quit ==
    /\ ~destroyed
    /\ destroyed' = TRUE
    /\ canvas' = NoItems(0, <<>>)
    /\ after' = 0
    /\ pc' = "exited"
    /\ tick' = NoTick
    /\ UNCHANGED <<hours, date, ClockDirectionMap,
                   winState, winThread, ret>>

Next ==
    \/ Tick
    \/ toggle_window
    \/ toggle_hours
    \/ toggle_date
    \/ on_quit

Spec == Init /\ [][Next]_vars

\* The Tk main loop runs a pending callback, and the GUI thread runs a
\* callback it has started to its end: weak fairness of every step of the
\* tick.  CallAndDraw is enabled exactly where pc = "call" and every step of
\* it leaves that position, so its weak fairness is []<>(pc # "call").
FairSpec ==
    /\ Spec
    /\ WF_vars(TickStart) /\ WF_vars(WidthDate) /\ WF_vars(WidthAndHours)
    /\ WF_vars(WidthAndDate) /\ WF_vars(Clear) /\ WF_vars(Reschedule)
    /\ []<>(pc # "call")

----------------------------------------------------------------------------
(* Direct calls of the functions.  A behaviour of FuncSpec starts with one  *)
(* input, drawn from the sets above, in ret.args, and applies to it the     *)
(* functions that take such an input.                                       *)

guiVars == <<hours, date, canvas, winState, winThread, after, destroyed, pc,
             tick>>

Inputs ==
    [kind : {"time"}, date : BOOLEAN, hours : BOOLEAN, now : Readings]
    \cup [kind : {"digit"}, digit : DOMAIN DigitRepresentation]
    \cup [kind : {"glyph"}, char : Glyphs]
    \cup [kind : {"angle"}, angle : Angles, clock_size : Sizes,
          x : Offsets, y : Offsets]

FuncInit ==
    /\ InitProgram
    /\ \E a \in Inputs : ret = [fn |-> "none", args |-> a, res |-> Return(<<>>)]

CallCurrentTime ==
    /\ ret.args.kind = "time"
    /\ ret' = [ret EXCEPT !.fn = "current_time",
                          !.res = current_time(ret.args.date, ret.args.hours,
                                               ret.args.now)]
    /\ UNCHANGED <<guiVars, ClockDirectionMap>>

CallFullClockTime ==
    /\ ret.args.kind = "time"
    /\ LET r == full_clock_time(ret.args.date, ret.args.hours, ret.args.now,
                                ClockDirectionMap)
       IN /\ ret' = [ret EXCEPT !.fn = "full_clock_time", !.res = r.res]
          /\ ClockDirectionMap' = r.map
    /\ UNCHANGED guiVars

CallClockDigit ==
    /\ ret.args.kind = "digit"
    /\ LET r == clock_digit(ret.args.digit, ClockDirectionMap)
       IN /\ ret' = [ret EXCEPT !.fn = "clock_digit", !.res = Return(r.value)]
          /\ ClockDirectionMap' = r.map
    /\ UNCHANGED guiVars

CallDirectionMap ==
    /\ ret.args.kind = "glyph"
    /\ LET g == DefaultDictGetItem(ClockDirectionMap, ret.args.char)
       IN /\ ret' = [ret EXCEPT !.fn = "ClockDirectionMap", !.res = Return(g.value)]
          /\ ClockDirectionMap' = g.map
    /\ UNCHANGED guiVars

CallAngleCalculation ==
    /\ ret.args.kind = "angle"
    /\ ret' = [ret EXCEPT !.fn = "angle_calculation",
                          !.res = Return(angle_calculation(ret.args.angle,
                                      ret.args.clock_size, ret.args.x, ret.args.y))]
    /\ UNCHANGED <<guiVars, ClockDirectionMap>>

FuncNext ==
    \/ CallCurrentTime
    \/ CallFullClockTime
    \/ CallClockDigit
    \/ CallDirectionMap
    \/ CallAngleCalculation

FuncSpec == FuncInit /\ [][FuncNext]_vars

----------------------------------------------------------------------------
(* Properties *)

\* What the properties expect, written out from the reading itself.
TwoDigits(n)  == <<DigitChars[(n \div 10) + 1], DigitChars[(n % 10) + 1]>>
FourDigits(n) == TwoDigits(n \div 100) \o TwoDigits(n % 100)
TimeGlyphs(now) ==
    TwoDigits(now.H) \o <<":">> \o TwoDigits(now.M) \o <<":">> \o TwoDigits(now.S)
DateGlyphs(now) ==
    TwoDigits(now.d) \o <<"/">> \o TwoDigits(now.m) \o <<"/">> \o FourDigits(now.Y)
ExpectedGlyphs(a) ==
    IF a.hours /\ a.date THEN TimeGlyphs(a.now) \o <<" ">> \o DateGlyphs(a.now)
    ELSE IF a.hours THEN TimeGlyphs(a.now)
    ELSE DateGlyphs(a.now)
KnownPair(char) ==
    CASE char = "BL" -> <<0, 270>>
      [] char = "TL" -> <<270, 180>>
      [] char = "TR" -> <<180, 90>>
      [] char = "BR" -> <<90, 0>>
      [] char = "-"  -> <<90, 270>>
      [] char = "|"  -> <<0, 180>>
      [] OTHER       -> <<150, 150>>
StaticPattern(glyph) ==
    [r \in 1..6 |-> [c \in 1..4 |-> KnownPair(DigitRepresentationSource[glyph][r][c])]]

\* C1 (as amended): current_time returns exactly the 3 components H, M, S
\* for hours only, exactly the 3 components Y, M, D in that order for date
\* only, all 6 (Y, M, D, H, M, S) for both, and raises if and only if both
\* flags are false.
C1_CurrentTimeParts ==
    ret.fn = "current_time" =>
        LET a == ret.args
            n == ret.args.now
        IN /\ (ret.res.exc # "None") <=> (~a.date /\ ~a.hours)
           /\ (~a.date /\ ~a.hours) =>
                  ret.res.exc = "ValueError" /\ ret.res.msg = NeitherMessage
           /\ (~a.date /\ a.hours) =>
                  ret.res.value = <<TwoDigits(n.H), TwoDigits(n.M), TwoDigits(n.S)>>
           /\ (a.date /\ ~a.hours) =>
                  ret.res.value = <<FourDigits(n.Y), TwoDigits(n.m), TwoDigits(n.d)>>
           /\ (a.date /\ a.hours) =>
                  ret.res.value = <<FourDigits(n.Y), TwoDigits(n.m), TwoDigits(n.d),
                                    TwoDigits(n.H), TwoDigits(n.M), TwoDigits(n.S)>>

\* C1 as claimed: for date only the 3 components are D, M, Y in that order.
C1_DateDayFirst ==
    (ret.fn = "current_time" /\ ret.args.date /\ ~ret.args.hours) =>
        ret.res.value = <<TwoDigits(ret.args.now.d), TwoDigits(ret.args.now.m),
                          FourDigits(ret.args.now.Y)>>

C1_Witness ==
    /\ ret.fn = "current_time" /\ ret.args.date /\ ~ret.args.hours
    /\ ret.res.exc = "None" /\ Len(ret.res.value) = 3

\* C2: with at least one flag true, full_clock_time returns one 6x4 pattern
\* per glyph, in order, of 'HH:MM:SS' (8 glyphs), 'DD/MM/YYYY' (10) or
\* 'HH:MM:SS DD/MM/YYYY' (19), each the static-table pattern of its glyph,
\* and the assertion of full_clock_string never fails.
C2_FullClockTimeGlyphs ==
    ret.fn = "full_clock_time" =>
        /\ ret.res.exc # "AssertionError"
        /\ (ret.args.date \/ ret.args.hours) =>
             LET glyphs == ExpectedGlyphs(ret.args)
             IN /\ ret.res.exc = "None"
                /\ Len(glyphs) = IF ret.args.date /\ ret.args.hours THEN 19
                                 ELSE IF ret.args.hours THEN 8 ELSE 10
                /\ Len(ret.res.value) = Len(glyphs)
                /\ \A i \in 1..Len(glyphs) :
                       ret.res.value[i] = StaticPattern(glyphs[i])

C2_Witness ==
    /\ ret.fn = "full_clock_time" /\ ret.args.hours /\ ~ret.args.date
    /\ ret.args.now.H = 13 /\ ret.args.now.M = 45 /\ ret.args.now.S = 7
    /\ Len(ret.res.value) = 8
    /\ ret.res.value[3] = StaticPattern(":")

\* C3 (as amended): for size 100 at (0, 0), centre (50, 50), y growing
\* downward, the hand tip is straight up from the centre for angle 0, to the
\* LEFT of it for angle 90, straight down for 180 and to the RIGHT for 270.
C3_CardinalDirections ==
    (/\ ret.fn = "angle_calculation" /\ ret.args.clock_size = 100
     /\ ret.args.x = 0 /\ ret.args.y = 0) =>
        LET tip == ret.res.value
            c   == Fixed(50)
        IN /\ ret.args.angle = 0   => (tip[1] = c /\ tip[2] < c)
           /\ ret.args.angle = 90  => (tip[1] < c /\ tip[2] = c)
           /\ ret.args.angle = 180 => (tip[1] = c /\ tip[2] > c)
           /\ ret.args.angle = 270 => (tip[1] > c /\ tip[2] = c)

\* C3 as claimed: angle 90 points right of the centre and angle 270 left.
C3_NinetyPointsRight ==
    (/\ ret.fn = "angle_calculation" /\ ret.args.clock_size = 100
     /\ ret.args.x = 0 /\ ret.args.y = 0) =>
        /\ ret.args.angle = 0   => (ret.res.value[1] = Fixed(50) /\ ret.res.value[2] < Fixed(50))
        /\ ret.args.angle = 90  => (ret.res.value[1] > Fixed(50) /\ ret.res.value[2] = Fixed(50))
        /\ ret.args.angle = 180 => (ret.res.value[1] = Fixed(50) /\ ret.res.value[2] > Fixed(50))
        /\ ret.args.angle = 270 => (ret.res.value[1] < Fixed(50) /\ ret.res.value[2] = Fixed(50))

C3_Witness ==
    /\ ret.fn = "angle_calculation" /\ ret.args.clock_size = 100
    /\ ret.args.x = 0 /\ ret.args.y = 0 /\ ret.args.angle = 90
    /\ ret.res.value = <<Fixed(50) - 3760000, Fixed(50)>>

\* C4: every pattern of the static table (13 keys) is 6 rows of 4
\* characters, and clock_digit returns 6 rows of 4 orientation pairs.
C4_SixByFour ==
    /\ DOMAIN DigitRepresentation =
         {"0", "1", "2", "3", "4", "5", "6", "7", "8", "9", " ", ":", "/"}
    /\ \A k \in DOMAIN DigitRepresentation :
         /\ Len(DigitRepresentation[k]) = 6
         /\ \A r \in 1..Len(DigitRepresentation[k]) :
                Len(DigitRepresentation[k][r]) = 4
    /\ ret.fn = "clock_digit" =>
         /\ Len(ret.res.value) = 6
         /\ \A r \in 1..Len(ret.res.value) :
              /\ Len(ret.res.value[r]) = 4
              /\ \A c \in 1..Len(ret.res.value[r]) :
                     /\ Len(ret.res.value[r][c]) = 2
                     /\ \A h \in 1..2 : ret.res.value[r][c][h] \in Angles

C4_Witness ==
    /\ ret.fn = "clock_digit" /\ ret.args.digit = "7"
    /\ ret.res.value[3] = << <<150, 150>>, <<150, 150>>, <<0, 180>>, <<0, 180>> >>

\* C5: the glyph lookup is total: each of the six known glyphs returns its
\* own pair and every other character returns (150, 150), with no error.
C5_LookupTotal ==
    ret.fn = "ClockDirectionMap" =>
        /\ ret.res.exc = "None"
        /\ ret.res.value = KnownPair(ret.args.char)

C5_Witness ==
    /\ ret.fn = "ClockDirectionMap" /\ ret.args.char = "Z"
    /\ ret.res.value = <<150, 150>>

\* C6 (as amended): a tick whose call of full_clock_time gets both flags
\* false draws no face and no hand and lets no exception escape, and goes on
\* to reschedule; the canvas is left with no items and with the width the
\* tick computed, which is 0 when every read of the flags returned false.
C6_SkippedFrameLeavesEmptyCanvas ==
    /\ tick.outcome # "raised"
    /\ tick.outcome = "skipped" => pc = "after"
    /\ (pc = "after" /\ ~tick.argDate /\ ~tick.argHours) =>
         /\ tick.outcome = "skipped"
         /\ canvas.s = <<>>
         /\ CanvasOvals(canvas) = <<>> /\ CanvasHands(canvas) = <<>>
         /\ canvas.width = tick.width
         /\ tick.allOff => canvas.width = 0

\* C6 as claimed: a tick that ran with both flags false leaves the canvas's
\* contents and width as they were.
C6_SkippedFrameLeavesCanvasAsItWas ==
    (pc = "after" /\ tick.outcome = "skipped" /\ tick.allOff) =>
        canvas = tick.canvas0

C6_Witness ==
    /\ pc = "after" /\ tick.outcome = "skipped" /\ tick.allOff
    /\ tick.canvas0.s # <<>>

\* C7: until quit, a tick that is not running has exactly one next tick
\* pending and a running one none, whatever the tray has toggled, and a
\* further tick always eventually starts.
C7_TickReschedules ==
    /\ [](~destroyed => after = (IF pc = "idle" THEN 1 ELSE 0))
    /\ []<>(destroyed \/ pc = "width_date")

C7_Witness ==
    /\ pc = "idle" /\ after = 1 /\ ~destroyed
    /\ canvas.bg # <<>> /\ canvas.s = <<>>
    /\ ~hours /\ ~date /\ winState = "withdrawn" /\ winThread = "tray"

\* C8 as claimed: every frame drawn has its width and its glyphs computed
\* from the same flag values: the canvas is 80 pixels wide per glyph drawn
\* and every face is 20 pixels wide.
C8_FrameWidthMatchesGlyphs ==
    (pc = "after" /\ tick.outcome = "drawn") =>
        LET ovals == CanvasOvals(canvas)
        IN /\ canvas.width = 80 * Len(canvas.s)
           /\ Len(ovals) = 24 * Len(canvas.s)
           /\ \A i \in 1..Len(ovals) : ovals[i][3] - ovals[i][1] = 20

\* C9 as claimed: no show or hide of the window is executed by the tray
\* thread.
C9_WindowCallsOnGuiThread == winThread # "tray"

\* C10 (as amended): ClockDirectionMap keeps its six startup keys with their
\* startup values; the only change is that a looked-up character that was
\* not a key (the space of the patterns) becomes one, with the default pair.
C10_StartupEntriesKept ==
    /\ \A k \in DOMAIN ClockDirectionMapInitial :
         k \in DOMAIN ClockDirectionMap /\ ClockDirectionMap[k] = KnownPair(k)
    /\ \A k \in (DOMAIN ClockDirectionMap) \ (DOMAIN ClockDirectionMapInitial) :
         k = " " /\ ClockDirectionMap[k] = <<150, 150>>

\* C10 as claimed: ClockDirectionMap has exactly the keys and values it had
\* at startup.
C10_MapAsAtStartup == ClockDirectionMap = ClockDirectionMapInitial

C10_Witness ==
    /\ pc = "idle" /\ canvas.s # <<>>
    /\ DOMAIN ClockDirectionMap = (DOMAIN ClockDirectionMapInitial) \cup {" "}

====
